---- MODULE Spec2Model ----
(***************************************************************************)
(* The virtual-table adapter of sqlite-vector (virtual_table.cpp /         *)
(* virtual_table.h): the vtab hooks Open, Close, Filter, Next, Eof, Rowid, *)
(* Column, BestIndex, FindFunction and Update, and the scalar function     *)
(* knn_param, as a state machine over the ANN index, the known-row set,    *)
(* the cursors and the vtab's error message.                               *)
(*                                                                         *)
(* 64-bit host integers are kept at their width as four 16-bit limbs,      *)
(* most significant first; floats are abstracted to small integers.        *)
(***************************************************************************)
EXTENDS Integers, Sequences, FiniteSets, TLC

(* ------------------------------------------------------------------ *)
(* Bounds of the model                                                 *)
(* ------------------------------------------------------------------ *)

\* max_elements of the index options the table was created with
MaxElements == 2

\* dimension of the vector space the table was created with
Dim == 2

(* ------------------------------------------------------------------ *)
(* Program constants                                                   *)
(* ------------------------------------------------------------------ *)

kColumnIndexVector == 0
kColumnIndexDistance == 1
kVector == 1
kRowid == 2
kKnnParamType == "vector_search_knn_param"
\* SQLITE_INDEX_CONSTRAINT_FUNCTION, the op FindFunction hands to the planner
kFunctionConstraintVectorSearchKnn == 150

SQLITE_OK == "SQLITE_OK"
SQLITE_ERROR == "SQLITE_ERROR"
\* the call did not return: a C++ exception left the hook
EXCEPTION == "EXCEPTION"
\* the call did not return: a failed SQLITE_VECTOR_ASSERT ended the process
ABORTED == "ABORTED"

(* ------------------------------------------------------------------ *)
(* 64-bit integers as limbs                                            *)
(* ------------------------------------------------------------------ *)

LimbBase == 2^16
HalfLimb == 2^15

Int64(l3, l2, l1, l0) == <<l3, l2, l1, l0>>
Zero64 == Int64(0, 0, 0, 0)
\* a small non-negative integer as a 64-bit value
Small64(n) == Int64(0, 0, n \div LimbBase, n % LimbBase)
MinusOne64 == Int64(LimbBase - 1, LimbBase - 1, LimbBase - 1, LimbBase - 1)
Int64Max == Int64(HalfLimb - 1, LimbBase - 1, LimbBase - 1, LimbBase - 1)
Int64Min == Int64(HalfLimb, 0, 0, 0)
\* 2^32 + n
Pow32Plus(n) == Int64(0, 1, 0, n)
\* 2^31
Pow31 == Int64(0, 0, HalfLimb, 0)

IsNegative64(x) == x[1] >= HalfLimb

\* unsigned comparison of the limbs
LimbLess(a, b) ==
  \E i \in 1..4 : a[i] < b[i] /\ \A j \in 1..(i - 1) : a[j] = b[j]

\* signed a < b
Less64(a, b) ==
  IF IsNegative64(a) # IsNegative64(b) THEN IsNegative64(a) ELSE LimbLess(a, b)

(* ------------------------------------------------------------------ *)
(* Vector (vector.h): codec and normalization                          *)
(* ------------------------------------------------------------------ *)

\* the vector with component a at axis i and 0 elsewhere, of dimension d
Axis(d, i, a) == [j \in 1..d |-> IF j = i THEN a ELSE 0]

\* A blob is its float payload and the count of bytes left over after the
\* last whole float.
Blob(floats, extra) == [floats |-> floats, extra |-> extra]
BlobSize(b) == 4 * Len(b.floats) + b.extra

\* Vector::FromBlob: succeeds iff the blob is non-empty and a whole number of
\* floats
FromBlobOk(b) == BlobSize(b) > 0 /\ BlobSize(b) % 4 = 0
FromBlob(b) == b.floats

\* Vector::ToBlob
ToBlob(v) == Blob(v, 0)

VecDim(v) == Len(v)

RECURSIVE SumSq(_, _)
SumSq(v, n) == IF n = 0 THEN 0 ELSE v[n] * v[n] + SumSq(v, n - 1)

\* the integer square root
ISqrt(s) == CHOOSE r \in 0..s : r * r <= s /\ (r + 1) * (r + 1) > s

\* Vector::Normalize: each component divided by the L2 norm; the zero
\* vector is returned as it is
Normalize(v) ==
  LET norm == ISqrt(SumSq(v, Len(v)))
  IN IF norm = 0 THEN v ELSE [j \in 1..Len(v) |-> v[j] \div norm]

RECURSIVE SumSqDiff(_, _, _)
SumSqDiff(a, b, n) ==
  IF n = 0 THEN 0 ELSE (a[n] - b[n]) * (a[n] - b[n]) + SumSqDiff(a, b, n - 1)

\* the distance function of the space (squared L2)
Distance(a, b) == SumSqDiff(a, b, Len(a))

(* ------------------------------------------------------------------ *)
(* Host values (sqlite3_value)                                         *)
(* ------------------------------------------------------------------ *)

NoBlob == Blob(<<>>, 0)
Value(type, i, r, blob, text, ptr) ==
  [type |-> type, i |-> i, r |-> r, blob |-> blob, text |-> text, ptr |-> ptr]
NullValue == Value("SQLITE_NULL", Zero64, 0, NoBlob, "", "")
IntegerValue(x) == Value("SQLITE_INTEGER", x, 0, NoBlob, "", "")
FloatValue(d) == Value("SQLITE_FLOAT", Zero64, d, NoBlob, "", "")
BlobValue(b) == Value("SQLITE_BLOB", Zero64, 0, b, "", "")
TextValue(t) == Value("SQLITE_TEXT", Zero64, 0, NoBlob, t, "")
\* what sqlite3_result_pointer produces: a NULL carrying a tagged pointer
PointerValue(tag) == Value("SQLITE_NULL", Zero64, 0, NoBlob, "", tag)

sqlite3_value_type(v) == v.type
sqlite3_value_int64(v) == v.i

\* sqlite3_value_int: the low 32 bits of the 64-bit value, as a signed int
sqlite3_value_int(v) ==
  LET hi == v.i[3]
      lo == v.i[4]
  IN IF hi >= HalfLimb THEN (hi - LimbBase) * LimbBase + lo
                       ELSE hi * LimbBase + lo

\* sqlite3_value_pointer: the pointer, if the value carries one with that tag
sqlite3_value_pointer(v, tag) == v.ptr # "" /\ v.ptr = tag

\* argv[i] of a hook called with C indices
Arg(argv, i) == argv[i + 1]

(* ------------------------------------------------------------------ *)
(* State                                                               *)
(* ------------------------------------------------------------------ *)

VARIABLES
  build,      \* what the build fixes: the width of hnswlib::labeltype (size_t)
  space_,     \* VirtualTable::space_ (dimension, normalize)
  index_,     \* VirtualTable::index_: label -> stored vector
  rowids_,    \* VirtualTable::rowids_
  zErrMsg,    \* sqlite3_vtab::zErrMsg, "" for a null pointer
  cursors,    \* the Cursor objects, by handle; NoCursor when not open
  param,      \* the KnnParam object of the live knn_param() value
  info,       \* the sqlite3_index_info BestIndex last filled in
  call,       \* the last call of a hook: what it was given and what it returned
  alive,      \* FALSE once the process has been ended
  heap        \* the message buffers sqlite3_vmprintf has handed out

vars == <<build, space_, index_, rowids_, zErrMsg, cursors, param, info, call,
          alive, heap>>

\* the cursor handles the host may hold open at once
CursorIds == {"cur1", "cur2"}

NoCursor == [open |-> FALSE, result |-> <<>>, current_row |-> 1,
             query_vector |-> <<>>]

\* Cursor::Cursor: empty result, current_row = result.cend()
NewCursor == [open |-> TRUE, result |-> <<>>, current_row |-> 1,
              query_vector |-> <<>>]

\* result.cend() as a position
Cend(cur) == Len(cur.result) + 1

NoParam == [live |-> FALSE, query_vector |-> <<>>, k |-> 0]

NoInfo == [aConstraint |-> <<>>, argvIndex |-> <<>>, omit |-> <<>>,
           idxNum |-> 0]

\* a call: the hook, the cursor it was given ("" for none), what it
\* returned, the value it wrote through its output parameter and the method
\* of the index it invoked ("" for none)
Call(op, cur, rc, out, idx) ==
  [op |-> op, cur |-> cur, rc |-> rc, out |-> out, idx |-> idx]
NoCall == Call("none", "", SQLITE_OK, NullValue, "")

dimension == space_.dim

(* ------------------------------------------------------------------ *)
(* hnswlib::HierarchicalNSW (the ANN index)                            *)
(* ------------------------------------------------------------------ *)

\* static_cast<hnswlib::labeltype>(rowid): the low bits that fit size_t
ToLabel(rowid) ==
  IF build.labelBits = 64 THEN rowid ELSE Int64(0, 0, rowid[3], rowid[4])

\* addPoint, by what it may do: "throw" std::runtime_error when the index is
\* full; for a label already held, replace its vector or (in a library that
\* rejects duplicates) throw; "store" otherwise
AddPointOutcomes(label) ==
  IF label \in DOMAIN index_ THEN {"store", "throw"}
  ELSE IF Cardinality(DOMAIN index_) >= MaxElements THEN {"throw"}
  ELSE {"store"}

\* addPoint: stores the vector under the label (replacing the vector of a
\* label already held)
AddPoint(vec, label) ==
  [l \in (DOMAIN index_) \cup {label} |->
     IF l = label THEN vec ELSE index_[l]]

\* (distance, label) pairs of the points held
Pair(first, second) == [first |-> first, second |-> second]
PairLess(p, q) ==
  p.first < q.first \/ (p.first = q.first /\ LimbLess(p.second, q.second))

RECURSIVE CloserFirst(_)
CloserFirst(S) ==
  IF S = {} THEN <<>>
  ELSE LET m == CHOOSE p \in S : \A q \in S \ {p} : PairLess(p, q)
       IN <<m>> \o CloserFirst(S \ {m})

Min(a, b) == IF a < b THEN a ELSE b

\* searchKnnCloserFirst: the answers an approximate search may give, each
\* min(k, size) of the points held, closest first
SearchKnnCloserFirst(query, k) ==
  LET all == {Pair(Distance(query, index_[l]), l) : l \in DOMAIN index_}
      n == Min(k, Cardinality(all))
  IN {CloserFirst(S) : S \in {T \in SUBSET all : Cardinality(T) = n}}

\* getDataByLabel throws iff the label is not held
HasLabel(label) == label \in DOMAIN index_

(* ------------------------------------------------------------------ *)
(* Inputs the host may pass                                            *)
(* ------------------------------------------------------------------ *)

\* rowids: more small ones than the index has room for, a negative one and
\* one beyond 32 bits
RowidInputs ==
  {Small64(n) : n \in 1..(MaxElements + 1)} \cup {MinusOne64, Pow32Plus(1)}

\* blobs: two vectors of the table's dimension, one of another dimension,
\* one with stray bytes and the empty blob
BlobInputs ==
  {Blob(Axis(Dim, 1, 1), 0), Blob(Axis(Dim, 1, 2), 0),
   Blob(Axis(Dim + 1, 1, 1), 0), Blob(Axis(Dim, 1, 1), 3), Blob(<<>>, 0)}

\* the argument lists the host passes to xUpdate of this two-column table:
\* one value for a DELETE, 2 + 2 values for an INSERT (argv[0] NULL) or an
\* UPDATE (argv[0] the old rowid)
UpdateArgs ==
  {<<a0>> : a0 \in {NullValue, IntegerValue(Small64(1))}}
  \cup
  {<<NullValue, a1, a2, NullValue>> :
     a1 \in {NullValue} \cup {IntegerValue(r) : r \in RowidInputs},
     a2 \in {IntegerValue(Small64(1))} \cup {BlobValue(b) : b \in BlobInputs}}
  \cup
  {<<IntegerValue(Small64(1)), IntegerValue(r), BlobValue(Blob(Axis(Dim, 1, 2), 0)),
     NullValue>> : r \in {Small64(1), Small64(2)}}

(* ------------------------------------------------------------------ *)
(* VirtualTable::Update                                                *)
(* ------------------------------------------------------------------ *)

\* the addresses of the buffers sqlite3_vmprintf can hand out
MaxBuffers == 2
Addresses == 1..MaxBuffers

\* The heap of message buffers: the addresses that are allocated, the address
\* zErrMsg holds (0 for a null pointer), and whether sqlite3_free was given
\* an address that is not allocated.
EmptyHeap == [live |-> {}, ptr |-> 0, badFree |-> FALSE]

\* sqlite3_free(p)
Sqlite3Free(h, p) ==
  IF p \in h.live THEN [h EXCEPT !.live = @ \ {p}]
                  ELSE [h EXCEPT !.badFree = TRUE]

\* sqlite3_vmprintf stored into *pzErr: the lowest address not allocated; no
\* heap when every address is allocated
Sqlite3Vmprintf(h) ==
  {[h EXCEPT !.live = @ \cup {a}, !.ptr = a] :
     a \in {b \in Addresses \ h.live : \A d \in Addresses \ h.live : b <= d}}

\* SetZErrMsg that overwrites the pointer without freeing the old buffer
AfterSetZErrMsgNoFree(h) == Sqlite3Vmprintf(h)

\* SetZErrMsg on the heap: the old buffer, if any, is freed, then the new
\* message is printed into a new buffer
AfterSetZErrMsg(h) ==
  Sqlite3Vmprintf(IF h.ptr # 0 THEN Sqlite3Free(h, h.ptr) ELSE h)

\* SetZErrMsg: frees the previous message, if any, and stores the new one
SetZErrMsg(pzErr, msg) == msg

\* std::numeric_limits<Cursor::Rowid>::max(), Cursor::Rowid = int64_t
RowidMax == Int64Max

\* IsInsert without the test of argv[0]
IsInsertWhateverArgv0(argc, argv) == argc > 1

\* the call is the host's INSERT convention
IsInsert(argc, argv) ==
  argc > 1 /\ sqlite3_value_type(Arg(argv, 0)) = "SQLITE_NULL"

\* the range check on the rowid
RowidOutOfRange(raw_rowid) ==
  Less64(RowidMax, raw_rowid) \/ Less64(raw_rowid, Zero64)

\* DimensionMismatch that lets every vector through
DimensionMismatchNever(vector) == FALSE

\* the check of the vector's dimension against the table's
DimensionMismatch(vector) == VecDim(vector) # dimension

\* *pRowid was not written
Unset == NullValue

\* UpdateFail with rowids_.insert(rowid) moved above the checks of the vector
UpdateFailAfterInsert(msg, out) ==
  {[rc |-> SQLITE_ERROR, err |-> msg, index |-> index_,
    rowids |-> IF out.type = "SQLITE_INTEGER" THEN rowids_ \cup {out.i}
                                              ELSE rowids_,
    pRowid |-> out, idx |-> ""]}

\* an early return of Update: the message is set and SQLITE_ERROR returned,
\* the index and the known-row set as they were
UpdateFail(msg, out) ==
  {[rc |-> SQLITE_ERROR, err |-> msg, index |-> index_,
    rowids |-> rowids_, pRowid |-> out, idx |-> ""]}

\* what Update may do: the return code, the message it sets ("" for none),
\* the index and the known-row set it leaves, *pRowid, and the method of the
\* index it invoked
UpdateResults(argc, argv) ==
  LET Fail(msg, out) == UpdateFail(msg, out)
  IN
  IF IsInsert(argc, argv) THEN
    IF sqlite3_value_type(Arg(argv, 1)) = "SQLITE_NULL" THEN
      Fail("rowid must be specified during insertion", Unset)
    ELSE
      LET raw_rowid == sqlite3_value_int64(Arg(argv, 1))
          pRowid == IntegerValue(raw_rowid)
      IN
      IF RowidOutOfRange(raw_rowid) THEN
        Fail("rowid %lld out of range", Unset)
      ELSE IF sqlite3_value_type(Arg(argv, 2)) # "SQLITE_BLOB" THEN
        Fail("vector must be of type Blob", pRowid)
      ELSE IF FromBlobOk(Arg(argv, 2).blob) THEN
        LET vector == FromBlob(Arg(argv, 2).blob) IN
        IF DimensionMismatch(vector) THEN
          Fail("Dimension mismatch: vector has dimension %d, but the table has dimension %d",
               pRowid)
        ELSE
          {IF o = "throw" THEN
             \* nothing in Update catches what addPoint throws
             [rc |-> EXCEPTION, err |-> "", index |-> index_,
              rowids |-> rowids_, pRowid |-> pRowid, idx |-> "addPoint"]
           ELSE
             [rc |-> SQLITE_OK, err |-> "",
              index |-> AddPoint(IF space_.normalize THEN Normalize(vector)
                                                     ELSE vector,
                                 ToLabel(raw_rowid)),
              rowids |-> rowids_ \cup {raw_rowid}, pRowid |-> pRowid,
              idx |-> "addPoint"]
           : o \in AddPointOutcomes(ToLabel(raw_rowid))}
      ELSE
        Fail("Failed to perform insertion due to: %s", pRowid)
  ELSE
    Fail("Operation not supported for now", Unset)

\* An exception that leaves a hook unwinds into the host's C frames: the
\* process is ended, or the exception passes through to a C++ caller of the
\* host and the table lives on.
AfterCall(rc) ==
  IF rc = ABORTED THEN {FALSE}
  ELSE IF rc = EXCEPTION THEN BOOLEAN
  ELSE {TRUE}

\* SQLITE_VECTOR_ASSERT(cond): what a failing assertion may do, by whether
\* the build compiles assertions in
AssertOutcomes(cond) == IF cond THEN {"pass"} ELSE {"abort", "pass"}

Update(argc, argv) ==
  /\ alive
  /\ \E r \in UpdateResults(argc, argv) :
       /\ index_' = r.index
       /\ rowids_' = r.rowids
       /\ zErrMsg' = IF r.err = "" THEN zErrMsg ELSE SetZErrMsg(zErrMsg, r.err)
       /\ heap' \in (IF r.err = "" THEN {heap} ELSE AfterSetZErrMsg(heap))
       /\ call' = Call("Update", "", r.rc, r.pRowid, r.idx)
       /\ alive' \in AfterCall(r.rc)
  /\ UNCHANGED <<build, space_, cursors, param, info>>

(* ------------------------------------------------------------------ *)
(* Open, Close, Rowid, Eof, Next, Column                               *)
(* ------------------------------------------------------------------ *)

AtEnd(cur) == cur.current_row = Cend(cur)

Open(c) ==
  /\ alive
  /\ ~cursors[c].open
  /\ cursors' = [cursors EXCEPT ![c] = NewCursor]
  /\ call' = Call("Open", c, SQLITE_OK, NullValue, "")
  /\ UNCHANGED <<build, space_, index_, rowids_, zErrMsg, heap, param, info, alive>>

Close(c) ==
  /\ alive
  /\ cursors[c].open
  /\ cursors' = [cursors EXCEPT ![c] = NoCursor]
  /\ call' = Call("Close", c, SQLITE_OK, NullValue, "")
  /\ UNCHANGED <<build, space_, index_, rowids_, zErrMsg, heap, param, info, alive>>

\* RowidResult that answers rowid 0 with success at the end
RowidResultOkAtEnd(cur) ==
  [rc |-> SQLITE_OK,
   out |-> IF ~AtEnd(cur) THEN IntegerValue(cur.result[cur.current_row].second)
                          ELSE IntegerValue(Zero64)]

RowidResult(cur) ==
  IF ~AtEnd(cur)
    THEN [rc |-> SQLITE_OK,
          out |-> IntegerValue(cur.result[cur.current_row].second)]
    ELSE [rc |-> SQLITE_ERROR, out |-> NullValue]

Rowid(c) ==
  /\ alive
  /\ cursors[c].open
  /\ LET r == RowidResult(cursors[c]) IN
       call' = Call("Rowid", c, r.rc, r.out, "")
  /\ UNCHANGED <<build, space_, index_, rowids_, zErrMsg, heap, cursors, param, info,
                 alive>>

EofResult(cur) == IF AtEnd(cur) THEN "true" ELSE "false"

Eof(c) ==
  /\ alive
  /\ cursors[c].open
  /\ call' = Call("Eof", c, EofResult(cursors[c]), NullValue, "")
  /\ UNCHANGED <<build, space_, index_, rowids_, zErrMsg, heap, cursors, param, info,
                 alive>>

\* Next that moves the iterator without the test against the end
NextPositionPastEnd(cur) == cur.current_row + 1

\* the iterator after Next
NextPosition(cur) ==
  IF ~AtEnd(cur) THEN cur.current_row + 1 ELSE cur.current_row

\* Next on an iterator kept by the table and not by the cursor: every open
\* cursor moves
NextRowEveryCursor(c) ==
  /\ alive
  /\ cursors[c].open
  /\ cursors' = [d \in CursorIds |->
                   IF cursors[d].open
                     THEN [cursors[d] EXCEPT !.current_row = NextPosition(cursors[d])]
                     ELSE cursors[d]]
  /\ call' = Call("Next", c, SQLITE_OK, NullValue, "")
  /\ UNCHANGED <<build, space_, index_, rowids_, zErrMsg, heap, param, info, alive>>

NextRow(c) ==
  /\ alive
  /\ cursors[c].open
  /\ cursors' = [cursors EXCEPT ![c].current_row = NextPosition(cursors[c])]
  /\ call' = Call("Next", c, SQLITE_OK, NullValue, "")
  /\ UNCHANGED <<build, space_, index_, rowids_, zErrMsg, heap, param, info, alive>>

\* GetVectorByRowidOk that looks the rowid up in the known-row set
GetVectorByRowidOkInRowids(rowid) == rowid \in rowids_

\* GetVectorByRowid: the stored vector, or NotFound when getDataByLabel throws
GetVectorByRowidOk(rowid) == HasLabel(ToLabel(rowid))
GetVectorByRowid(rowid) == index_[ToLabel(rowid)]

ColumnResults(cur, N) ==
  IF AtEnd(cur) THEN
    {[rc |-> SQLITE_ERROR, out |-> NullValue, idx |-> ""]}
  ELSE IF kColumnIndexDistance = N THEN
    {[rc |-> SQLITE_OK, out |-> FloatValue(cur.result[cur.current_row].first),
      idx |-> ""]}
  ELSE IF kColumnIndexVector = N THEN
    LET rowid == cur.result[cur.current_row].second IN
    IF GetVectorByRowidOk(rowid) THEN
      {IF a = "abort" THEN
         [rc |-> ABORTED, out |-> NullValue, idx |-> "getDataByLabel"]
       ELSE
         [rc |-> SQLITE_OK, out |-> BlobValue(ToBlob(GetVectorByRowid(rowid))),
          idx |-> "getDataByLabel"]
       : a \in AssertOutcomes(VecDim(GetVectorByRowid(rowid)) = dimension)}
    ELSE
      {[rc |-> SQLITE_ERROR,
        out |-> TextValue("Can't find vector with rowid %d"),
        idx |-> "getDataByLabel"]}
  ELSE
    {[rc |-> SQLITE_ERROR, out |-> TextValue("Invalid column index: %d"),
      idx |-> ""]}

Column(c, N) ==
  /\ alive
  /\ cursors[c].open
  /\ \E r \in ColumnResults(cursors[c], N) :
       /\ call' = Call("Column", c, r.rc, r.out, r.idx)
       /\ alive' \in AfterCall(r.rc)
  /\ UNCHANGED <<build, space_, index_, rowids_, zErrMsg, heap, cursors, param, info>>

(* ------------------------------------------------------------------ *)
(* VirtualTable::BestIndex, VirtualTable::FindFunction                 *)
(* ------------------------------------------------------------------ *)

Constraint(usable, op, iColumn) ==
  [usable |-> usable, op |-> op, iColumn |-> iColumn]

\* the sqlite3_index_info as the host hands it over: no constraint used
NewIndexInfo(aConstraint, idxNum) ==
  [aConstraint |-> aConstraint,
   argvIndex |-> [i \in 1..Len(aConstraint) |-> 0],
   omit |-> [i \in 1..Len(aConstraint) |-> 0],
   idxNum |-> idxNum]

\* BestIndexStep in which a rowid constraint leaves the idxNum of an earlier
\* knn constraint alone
BestIndexStepKnnWins(index_info, i) ==
  LET constraint == index_info.aConstraint[i]
      column == constraint.iColumn
  IN
  IF ~constraint.usable THEN index_info
  ELSE IF constraint.op = kFunctionConstraintVectorSearchKnn
          /\ column = kColumnIndexVector THEN
    [index_info EXCEPT !.idxNum = kVector, !.argvIndex[i] = 1, !.omit[i] = 1]
  ELSE IF column = -1 THEN
    [index_info EXCEPT !.idxNum = IF @ = kVector THEN @ ELSE kRowid,
                       !.argvIndex[i] = 2, !.omit[i] = 1]
  ELSE index_info

\* the body of the loop, for constraint i
BestIndexStep(index_info, i) ==
  LET constraint == index_info.aConstraint[i]
      column == constraint.iColumn
  IN
  IF ~constraint.usable THEN index_info
  ELSE IF constraint.op = kFunctionConstraintVectorSearchKnn
          /\ column = kColumnIndexVector THEN
    [index_info EXCEPT !.idxNum = kVector, !.argvIndex[i] = 1, !.omit[i] = 1]
  ELSE IF column = -1 THEN
    [index_info EXCEPT !.idxNum = kRowid, !.argvIndex[i] = 2, !.omit[i] = 1]
  ELSE index_info

RECURSIVE BestIndexLoop(_, _)
BestIndexLoop(index_info, i) ==
  IF i > Len(index_info.aConstraint) THEN index_info
  ELSE BestIndexLoop(BestIndexStep(index_info, i), i + 1)

BestIndex(aConstraint, idxNum) ==
  /\ alive
  /\ info' = BestIndexLoop(NewIndexInfo(aConstraint, idxNum), 1)
  /\ call' = Call("BestIndex", "", SQLITE_OK, NullValue, "")
  /\ UNCHANGED <<build, space_, index_, rowids_, zErrMsg, heap, cursors, param, alive>>

FindFunctionResult(zName) ==
  IF zName = "knn_search" THEN "SQLITE_INDEX_CONSTRAINT_FUNCTION" ELSE "0"

FindFunction(zName) ==
  /\ alive
  /\ call' = Call("FindFunction", "", FindFunctionResult(zName),
                  IF zName = "knn_search" THEN TextValue("KnnSearch")
                                          ELSE NullValue, "")
  /\ UNCHANGED <<build, space_, index_, rowids_, zErrMsg, heap, cursors, param, info,
                 alive>>

(* ------------------------------------------------------------------ *)
(* KnnParamFunc, KnnParamDeleter                                       *)
(* ------------------------------------------------------------------ *)

KnnParamFuncResult(argc, argv) ==
  LET Fail(msg) == [rc |-> SQLITE_ERROR, out |-> TextValue(msg),
                    param |-> param]
  IN
  IF argc # 2 THEN Fail("Number of parameter is not 2")
  ELSE IF sqlite3_value_type(Arg(argv, 0)) # "SQLITE_BLOB" THEN
    Fail("Vector(1st param) should be of type Blob")
  ELSE IF sqlite3_value_type(Arg(argv, 1)) # "SQLITE_INTEGER" THEN
    Fail("k(2nd param) should be of type INTEGER")
  ELSE IF ~FromBlobOk(Arg(argv, 0).blob) THEN
    Fail("Failed to parse vector due to: %s")
  ELSE
    LET k == sqlite3_value_int(Arg(argv, 1)) IN
    IF k <= 0 THEN Fail("k should be greater than 0")
    ELSE [rc |-> SQLITE_OK, out |-> PointerValue(kKnnParamType),
          param |-> [live |-> TRUE,
                     query_vector |-> FromBlob(Arg(argv, 0).blob),
                     k |-> k]]

\* The host evaluates knn_param while it holds no other knn_param value.
KnnParamFunc(argc, argv) ==
  /\ alive
  /\ ~param.live
  /\ LET r == KnnParamFuncResult(argc, argv) IN
       /\ param' = r.param
       /\ call' = Call("KnnParamFunc", "", r.rc, r.out, "")
  /\ UNCHANGED <<build, space_, index_, rowids_, zErrMsg, heap, cursors, info, alive>>

\* the host discards the value: delete p
KnnParamDeleter ==
  /\ alive
  /\ param.live
  /\ param' = NoParam
  /\ call' = Call("KnnParamDeleter", "", SQLITE_OK, NullValue, "")
  /\ UNCHANGED <<build, space_, index_, rowids_, zErrMsg, heap, cursors, info, alive>>

(* ------------------------------------------------------------------ *)
(* VirtualTable::Filter                                                *)
(* ------------------------------------------------------------------ *)

\* FilterFail that also empties the cursor
FilterFailClears(c, msg) ==
  /\ zErrMsg' = SetZErrMsg(zErrMsg, msg)
  /\ heap' \in AfterSetZErrMsg(heap)
  /\ call' = Call("Filter", c, SQLITE_ERROR, NullValue, "")
  /\ cursors' = [cursors EXCEPT ![c].result = <<>>, ![c].current_row = 1]
  /\ UNCHANGED alive

\* what Filter leaves when it returns an error
FilterFail(c, msg) ==
  /\ zErrMsg' = SetZErrMsg(zErrMsg, msg)
  /\ heap' \in AfterSetZErrMsg(heap)
  /\ call' = Call("Filter", c, SQLITE_ERROR, NullValue, "")
  /\ UNCHANGED <<cursors, alive>>

\* the answer of searchKnn instead, which is farthest first
Reverse(sq) == [i \in 1..Len(sq) |-> sq[Len(sq) + 1 - i]]
FilterStoreFarthestFirst(c, q, k) ==
  \E knn \in SearchKnnCloserFirst(q, k),
     a \in AssertOutcomes(cursors[c].result = <<>>) :
    IF a = "abort" THEN
      /\ cursors' = [cursors EXCEPT ![c].query_vector = q]
      /\ call' = Call("Filter", c, ABORTED, NullValue, "searchKnnCloserFirst")
      /\ alive' = FALSE
      /\ UNCHANGED <<zErrMsg, heap>>
    ELSE
      /\ cursors' = [cursors EXCEPT ![c].query_vector = q,
                                    ![c].result = Reverse(knn),
                                    ![c].current_row = 1]
      /\ call' = Call("Filter", c, SQLITE_OK, NullValue, "searchKnnCloserFirst")
      /\ UNCHANGED <<zErrMsg, heap, alive>>

\* FilterStore that leaves the iterator where it was in the old result
FilterStoreKeepsRow(c, q, k) ==
  \E knn \in SearchKnnCloserFirst(q, k),
     a \in AssertOutcomes(cursors[c].result = <<>>) :
    IF a = "abort" THEN
      /\ cursors' = [cursors EXCEPT ![c].query_vector = q]
      /\ call' = Call("Filter", c, ABORTED, NullValue, "searchKnnCloserFirst")
      /\ alive' = FALSE
      /\ UNCHANGED <<zErrMsg, heap>>
    ELSE
      /\ cursors' = [cursors EXCEPT ![c].query_vector = q,
                                    ![c].result = knn]
      /\ call' = Call("Filter", c, SQLITE_OK, NullValue, "searchKnnCloserFirst")
      /\ UNCHANGED <<zErrMsg, heap, alive>>

\* the search and what follows it: the result is moved into the cursor and
\* the iterator set to its begin
FilterStore(c, q, k) ==
  \E knn \in SearchKnnCloserFirst(q, k),
     a \in AssertOutcomes(cursors[c].result = <<>>) :
    IF a = "abort" THEN
      \* SQLITE_VECTOR_ASSERT(cursor->result.empty()) fails
      /\ cursors' = [cursors EXCEPT ![c].query_vector = q]
      /\ call' = Call("Filter", c, ABORTED, NullValue, "searchKnnCloserFirst")
      /\ alive' = FALSE
      /\ UNCHANGED <<zErrMsg, heap>>
    ELSE
      /\ cursors' = [cursors EXCEPT ![c].query_vector = q,
                                    ![c].result = knn,
                                    ![c].current_row = 1]
      /\ call' = Call("Filter", c, SQLITE_OK, NullValue, "searchKnnCloserFirst")
      /\ UNCHANGED <<zErrMsg, heap, alive>>

\* FilterSearch that asks the index for max_elements points, whatever k is
FilterSearchAllPoints(c, query_vector, k) ==
  FilterStore(c,
              IF space_.normalize THEN Normalize(query_vector)
                                  ELSE query_vector,
              MaxElements)

\* the branch of Filter that searches: the (normalized) query is stored in
\* the cursor and the index is asked for the k nearest
FilterSearch(c, query_vector, k) ==
  FilterStore(c,
              IF space_.normalize THEN Normalize(query_vector)
                                  ELSE query_vector,
              k)

\* Filter that moves the query vector out of the parameter object instead of
\* copying it, when the space does not normalize
FilterMovesQuery(c, idxNum, argv) ==
  /\ alive
  /\ cursors[c].open
  /\ IF idxNum = kVector THEN
       IF ~sqlite3_value_pointer(Arg(argv, 0), kKnnParamType) THEN
         FilterFail(c, "knn_param() should be used for the 2nd param of knn_search")
         /\ UNCHANGED param
       ELSE IF VecDim(param.query_vector) # dimension THEN
         FilterFail(c, "Dimension mismatch: query vector has dimension %d, but the table has dimension %d")
         /\ UNCHANGED param
       ELSE
         /\ FilterSearch(c, param.query_vector, param.k)
         /\ param' = IF space_.normalize THEN param
                     ELSE [param EXCEPT !.query_vector = <<>>]
     ELSE
       FilterFail(c, "Invalid index number: %d") /\ UNCHANGED param
  /\ UNCHANGED <<build, space_, index_, rowids_, info>>

Filter(c, idxNum, argv) ==
  /\ alive
  /\ cursors[c].open
  /\ IF idxNum = kVector THEN
       IF ~sqlite3_value_pointer(Arg(argv, 0), kKnnParamType) THEN
         FilterFail(c, "knn_param() should be used for the 2nd param of knn_search")
       ELSE IF VecDim(param.query_vector) # dimension THEN
         FilterFail(c, "Dimension mismatch: query vector has dimension %d, but the table has dimension %d")
       ELSE
         FilterSearch(c, param.query_vector, param.k)
     ELSE
       FilterFail(c, "Invalid index number: %d")
  /\ UNCHANGED <<build, space_, index_, rowids_, param, info>>

\* the values the host may bind to argv[0] of Filter: the live knn_param
\* value, a pointer of another type, or a plain integer
FilterArgs ==
  {<<v>> : v \in {IntegerValue(Small64(42)), PointerValue("other")}
                 \cup (IF param.live THEN {PointerValue(kKnnParamType)}
                                     ELSE {})}

(* ------------------------------------------------------------------ *)
(* VirtualTable::Create                                                *)
(* ------------------------------------------------------------------ *)

kModuleParamOffset == 3
SQLITE_NOMEM == "SQLITE_NOMEM"

\* A module argument: a JSON-shaped literal, by its keys and the values the
\* parsers read from it.
Literal(keys, dim, distance_type, max_elements) ==
  [keys |-> keys, dim |-> dim, distance_type |-> distance_type,
   max_elements |-> max_elements]

\* NamedVectorSpace::FromString: name and dim are there, no key is unknown,
\* dim is positive and the distance type is one of the three
VectorSpaceOk(lit) ==
  /\ {"name", "dim"} \subseteq lit.keys
  /\ lit.keys \subseteq {"name", "dim", "distance_type"}
  /\ lit.dim >= 1
  /\ lit.distance_type \in {"l2", "ip", "cosine"}
\* cosine forces normalize
VectorSpaceFromString(lit) ==
  [dim |-> lit.dim, normalize |-> lit.distance_type = "cosine"]

\* IndexOptions::FromString: no key is unknown and max_elements is positive
IndexOptionsOk(lit) ==
  /\ lit.keys \subseteq {"max_elements", "M", "ef_construction", "random_seed"}
  /\ lit.max_elements >= 1

\* no VirtualTable object: *ppVTab was not written
NoSpace == [dim |-> 0, normalize |-> FALSE]
HasTable == space_ # NoSpace

\* the test of what sqlite3_declare_vtab returned, without the test
DeclareFailedNever(rc) == FALSE

\* the test of what sqlite3_declare_vtab returned
DeclareFailed(rc) == rc # SQLITE_OK

\* What Create returns, what it writes (the table through ppVTab, a message
\* through pzErr, or nothing) and the space of the table it makes. args are
\* the module arguments, argv[kModuleParamOffset] onwards; config_rc and
\* declare_rc are what the host's sqlite3_vtab_config and
\* sqlite3_declare_vtab return; ctor_throws says whether the constructor of
\* VirtualTable throws.
CreateResult(argc, args, config_rc, declare_rc, ctor_throws) ==
  LET Fail(rc, out) == [rc |-> rc, out |-> out, space |-> NoSpace] IN
  IF config_rc # SQLITE_OK THEN Fail(config_rc, NullValue)
  ELSE IF argc # 2 + kModuleParamOffset THEN
    Fail(SQLITE_ERROR, TextValue("Expected 3 argument, got %d"))
  ELSE IF ~VectorSpaceOk(args[1]) THEN
    Fail(SQLITE_ERROR, TextValue("Invalid vector space: %s. Reason: %s"))
  ELSE IF ~IndexOptionsOk(args[2]) THEN
    Fail(SQLITE_ERROR, TextValue("Invalid index_options %s. Reason: %s"))
  ELSE IF DeclareFailed(declare_rc) THEN Fail(declare_rc, NullValue)
  ELSE IF ctor_throws THEN
    Fail(SQLITE_ERROR, TextValue("Failed to create virtual table: %s"))
  ELSE [rc |-> SQLITE_OK, out |-> PointerValue("VirtualTable"),
        space |-> VectorSpaceFromString(args[1])]

\* The host calls xCreate for a table that does not exist yet.
Create(argc, args, config_rc, declare_rc, ctor_throws) ==
  /\ alive
  /\ ~HasTable
  /\ LET r == CreateResult(argc, args, config_rc, declare_rc, ctor_throws) IN
       /\ space_' = r.space
       /\ call' = Call("Create", "", r.rc, r.out, "")
  /\ index_' = <<>>
  /\ rowids_' = {}
  /\ zErrMsg' = ""
  /\ heap' = [heap EXCEPT !.ptr = 0]
  /\ UNCHANGED <<build, cursors, param, info, alive>>

\* ~VirtualTable on the heap: the message buffer is freed when zErrMsg is not
\* null; the pointer is left as it was
AfterDestructor(h) == IF h.ptr # 0 THEN Sqlite3Free(h, h.ptr) ELSE h

\* Destroy: deletes the table. The host calls it once no cursor of the table
\* is open.
Destroy ==
  /\ alive
  /\ HasTable
  /\ \A c \in CursorIds : ~cursors[c].open
  /\ heap' = AfterDestructor(heap)
  /\ space_' = NoSpace
  /\ index_' = <<>>
  /\ rowids_' = {}
  /\ zErrMsg' = ""
  /\ call' = Call("Destroy", "", SQLITE_OK, NullValue, "")
  /\ UNCHANGED <<build, cursors, param, info, alive>>

(* ------------------------------------------------------------------ *)
(* Specification                                                       *)
(* ------------------------------------------------------------------ *)

Builds == [labelBits : {32, 64}]

\* the table as VirtualTable::Create leaves it
InitTable ==
  /\ build \in Builds
  /\ space_ \in [dim : {Dim}, normalize : BOOLEAN]
  /\ index_ = <<>>
  /\ rowids_ = {}
  /\ zErrMsg = ""
  /\ cursors = [c \in CursorIds |-> NoCursor]
  /\ param = NoParam
  /\ call = NoCall
  /\ alive = TRUE
  /\ heap = EmptyHeap

Init == InitTable /\ info = NoInfo

\* the second arguments of knn_param: 0, 1, 2, -1, 2^32 + 1, 2^32, 2^31, the
\* two ends of the 64-bit range, and 3, 2^16, 2^16 + 1
KInputs ==
  {Zero64, Small64(1), Small64(2), MinusOne64, Pow32Plus(1), Pow32Plus(0),
   Pow31, Int64Max, Int64Min}
  \cup {Small64(3), Small64(LimbBase), Small64(LimbBase + 1)}

KnnParamArgs ==
  {<<BlobValue(b), IntegerValue(k)>> : b \in BlobInputs, k \in KInputs}
  \cup {<<BlobValue(Blob(Axis(Dim, 1, 1), 0))>>,
        <<IntegerValue(Small64(1)), IntegerValue(Small64(1))>>,
        <<BlobValue(Blob(Axis(Dim, 1, 1), 0)), TextValue("1")>>}

\* the constraints the planner may hand to BestIndex
MaxConstraints == 2
SQLITE_INDEX_CONSTRAINT_EQ == 2
Constraints ==
  {Constraint(u, op, col) :
     u \in BOOLEAN,
     op \in {kFunctionConstraintVectorSearchKnn, SQLITE_INDEX_CONSTRAINT_EQ},
     col \in {-1, kColumnIndexVector, kColumnIndexDistance}}
ConstraintLists ==
  UNION {[1..n -> Constraints] : n \in 0..MaxConstraints}
\* idxNum as the host passes it in
HostIdxNums == {0, 3}

\* The whole adapter, on one cursor and the inputs below: inserts of two
\* rowids (one of them beyond 32 bits) with two vectors, and one call for each
\* way Update and knn_param fail.
OneCursor == {"cur1"}
e1 == Blob(Axis(Dim, 1, 1), 0)
TwiceE1 == Blob(Axis(Dim, 1, 2), 0)
SomeUpdateArgs ==
  {<<NullValue, IntegerValue(r), BlobValue(b), NullValue>> :
     r \in {Small64(1), Pow32Plus(1)}, b \in {e1, TwiceE1}}
  \cup
  {<<IntegerValue(Small64(1))>>,
   <<NullValue, NullValue, BlobValue(e1), NullValue>>,
   <<NullValue, IntegerValue(MinusOne64), BlobValue(e1), NullValue>>,
   <<NullValue, IntegerValue(Small64(1)), IntegerValue(Small64(1)), NullValue>>,
   <<NullValue, IntegerValue(Small64(1)), BlobValue(Blob(Axis(Dim, 1, 1), 3)),
     NullValue>>,
   <<NullValue, IntegerValue(Small64(1)), BlobValue(Blob(Axis(Dim + 1, 1, 1), 0)),
     NullValue>>}
SomeKnnParamArgs ==
  {<<BlobValue(e1), IntegerValue(Small64(1))>>,
   <<BlobValue(e1), IntegerValue(Small64(2))>>,
   <<BlobValue(Blob(Axis(Dim + 1, 1, 1), 0)), IntegerValue(Small64(1))>>,
   <<BlobValue(e1), IntegerValue(Zero64)>>}

Next ==
  \/ \E argv \in SomeUpdateArgs : Update(Len(argv), argv)
  \/ \E c \in OneCursor : Open(c)
  \/ \E c \in OneCursor : Close(c)
  \/ \E c \in OneCursor, idxNum \in {kVector, kRowid}, argv \in FilterArgs :
       Filter(c, idxNum, argv)
  \/ \E c \in OneCursor : NextRow(c)
  \/ \E c \in OneCursor : Eof(c)
  \/ \E c \in OneCursor : Rowid(c)
  \/ \E c \in OneCursor, N \in {0, 1, 2} : Column(c, N)
  \/ BestIndex(<<>>, 0)
  \/ \E zName \in {"knn_search", "knn_param"} : FindFunction(zName)
  \/ \E argv \in SomeKnnParamArgs : KnnParamFunc(Len(argv), argv)
  \/ KnnParamDeleter

Spec == Init /\ [][Next]_vars

\* Update alone
NextUpdate == \E argv \in UpdateArgs : Update(Len(argv), argv)
SpecUpdate == Init /\ [][NextUpdate]_vars

\* the way of a knn_param value: made by knn_param, bound to argv[0] of
\* Filter, discarded by the host
NextParam ==
  \/ \E argv \in KnnParamArgs : KnnParamFunc(Len(argv), argv)
  \/ \E c \in OneCursor : Open(c)
  \/ \E c \in OneCursor, argv \in FilterArgs : Filter(c, kVector, argv)
  \/ KnnParamDeleter
SpecParam == Init /\ [][NextParam]_vars

\* the planner alone: the host has filled in a sqlite3_index_info, and
\* BestIndex is called with it
InitPlan ==
  /\ InitTable
  /\ info \in {NewIndexInfo(cl, n) : cl \in ConstraintLists, n \in HostIdxNums}
NextPlan == BestIndex(info.aConstraint, info.idxNum)
SpecPlan == InitPlan /\ [][NextPlan]_vars

\* A query from plan to execution: the host calls BestIndex on the query's
\* constraints, opens a cursor, evaluates knn_param and calls Filter with the
\* idxNum BestIndex left and with argv[j - 1] the right-hand side of the
\* constraint BestIndex gave argvIndex j.
IsKnnConstraint(constraint) ==
  /\ constraint.op = kFunctionConstraintVectorSearchKnn
  /\ constraint.iColumn = kColumnIndexVector
\* info is what BestIndex returns for its constraints
Planned ==
  \E n \in HostIdxNums : info = BestIndexLoop(NewIndexInfo(info.aConstraint, n), 1)
MarkedAt(index_info, j) ==
  {i \in 1..Len(index_info.aConstraint) : index_info.argvIndex[i] = j}
Marked(index_info) ==
  {i \in 1..Len(index_info.aConstraint) : index_info.argvIndex[i] # 0}
\* the host executes a plan only when each of argv[0..n-1] is the value of
\* exactly one constraint
PlanAccepted(index_info) ==
  \A j \in 1..Cardinality(Marked(index_info)) :
     Cardinality(MarkedAt(index_info, j)) = 1
\* the right-hand side of a constraint: the value of knn_param(...) for
\* knn_search, an integer otherwise
RhsValue(constraint) ==
  IF IsKnnConstraint(constraint) THEN PointerValue(kKnnParamType)
  ELSE IntegerValue(Small64(1))
PlanArgv(index_info) ==
  [j \in 1..Cardinality(Marked(index_info)) |->
     RhsValue(index_info.aConstraint[CHOOSE i \in MarkedAt(index_info, j) : TRUE])]
NextQuery ==
  \/ BestIndex(info.aConstraint, info.idxNum)
  \/ \E c \in OneCursor : Open(c)
  \/ \E argv \in SomeKnnParamArgs : KnnParamFunc(Len(argv), argv)
  \/ /\ Planned
     /\ PlanAccepted(info)
     /\ param.live
     /\ \E c \in OneCursor : Filter(c, info.idxNum, PlanArgv(info))
SpecQuery == InitPlan /\ [][NextQuery]_vars

\* two cursors open on the table at once (the two sides of a self-join), with
\* two inserts and one knn_param value
TwoInserts ==
  {<<NullValue, IntegerValue(Small64(1)), BlobValue(e1), NullValue>>,
   <<NullValue, IntegerValue(Small64(2)), BlobValue(TwiceE1), NullValue>>}
NextCursors ==
  \/ \E argv \in TwoInserts : Update(Len(argv), argv)
  \/ KnnParamFunc(2, <<BlobValue(e1), IntegerValue(Small64(2))>>)
  \/ \E c \in CursorIds : Open(c)
  \/ \E c \in CursorIds : Close(c)
  \/ \E c \in CursorIds, argv \in FilterArgs : Filter(c, kVector, argv)
  \/ \E c \in CursorIds : NextRow(c)
  \/ \E c \in CursorIds : Eof(c)
  \/ \E c \in CursorIds : Rowid(c)
  \/ \E c \in CursorIds, N \in {kColumnIndexVector, kColumnIndexDistance} :
       Column(c, N)
  \/ BestIndex(<<>>, 0)
SpecCursors == Init /\ [][NextCursors]_vars

\* Create: the module arguments the host may pass (none to three literals,
\* well-formed or not, in either order), then inserts into the table made
SpaceLiterals ==
  {Literal({"name", "dim", "distance_type"}, Dim, t, 0) : t \in {"l2", "cosine"}}
  \cup {Literal({"name", "dim", "distance_type", "extra"}, Dim, "l2", 0)}
OptionsLiterals ==
  {Literal({"max_elements"}, 0, "", n) : n \in {0, MaxElements}}
ModuleArgs ==
  LET Literals == SpaceLiterals \cup OptionsLiterals
      UpToTwo == UNION {[1..n -> Literals] : n \in 0..2}
  IN UpToTwo
     \cup {args \o <<extra>> : args \in [1..2 -> Literals],
                               extra \in {Literal({"max_elements"}, 0, "", MaxElements)}}
InitCreate ==
  /\ build \in Builds
  /\ space_ = NoSpace
  /\ index_ = <<>>
  /\ rowids_ = {}
  /\ zErrMsg = ""
  /\ cursors = [c \in CursorIds |-> NoCursor]
  /\ param = NoParam
  /\ info = NoInfo
  /\ call = NoCall
  /\ alive = TRUE
  /\ heap = EmptyHeap
NextCreate ==
  \/ \E args \in ModuleArgs, config_rc \in {SQLITE_OK, SQLITE_ERROR},
        declare_rc \in {SQLITE_OK, SQLITE_NOMEM}, ctor_throws \in BOOLEAN :
       Create(kModuleParamOffset + Len(args), args, config_rc, declare_rc,
              ctor_throws)
  \/ HasTable /\ \E argv \in SomeUpdateArgs : Update(Len(argv), argv)
SpecCreate == InitCreate /\ [][NextCreate]_vars

\* The life of one table and of its error message: Create, calls of Update
\* and Filter that fail or succeed, Destroy, and Create again.
ErrMsgModuleArgs ==
  {<<Literal({"name", "dim", "distance_type"}, Dim, "l2", 0),
     Literal({"max_elements"}, 0, "", MaxElements)>>,
   <<>>}
NextErrMsg ==
  \/ \E args \in ErrMsgModuleArgs :
       Create(kModuleParamOffset + Len(args), args, SQLITE_OK, SQLITE_OK, FALSE)
  \/ HasTable /\ \E argv \in SomeUpdateArgs : Update(Len(argv), argv)
  \/ HasTable /\ \E c \in OneCursor : Open(c)
  \/ \E c \in OneCursor : Close(c)
  \/ \E c \in OneCursor, idxNum \in {kVector, kRowid}, argv \in FilterArgs :
       Filter(c, idxNum, argv)
  \/ Destroy
SpecErrMsg == InitCreate /\ [][NextErrMsg]_vars

(* ------------------------------------------------------------------ *)
(* Claims                                                              *)
(* ------------------------------------------------------------------ *)

\* the step is a call of Update that was given a rowid and found it in range
InsertStep == call'.op = "Update" /\ call'.out.type = "SQLITE_INTEGER"

\* C1. Capacity: once max_elements inserts with pairwise distinct rowids have
\* succeeded, every further Update that inserts a new rowid returns an error
\* code to the host, and the index and the known-row set are after the call
\* what they were before it.
C1_CapacityExceeded ==
  [][(/\ InsertStep
      /\ Cardinality(rowids_) >= MaxElements
      /\ call'.out.i \notin rowids_)
     => (/\ call'.rc = SQLITE_ERROR
         /\ index_' = index_
         /\ rowids_' = rowids_)]_vars

\* C2. Duplicate rowid: an Update that inserts a rowid already present in
\* the index fails with an error, and the vector stored for that rowid is
\* unchanged by the call.
C2_DuplicateRejected ==
  [][(InsertStep /\ ToLabel(call'.out.i) \in DOMAIN index_)
     => (/\ call'.rc = SQLITE_ERROR
         /\ index_'[ToLabel(call'.out.i)] = index_[ToLabel(call'.out.i)])]_vars

\* C3. The index and the known-row set change only in an Update that returns
\* success: an Update that returns an error, and every call of another hook,
\* leaves both as they were.
C3_OnlyUpdateMutates ==
  [][(index_' # index_ \/ rowids_' # rowids_)
     => (call'.op = "Update" /\ call'.rc = SQLITE_OK)]_vars

\* an Update has failed on a blob that is no vector, on an index that holds
\* a point
C3_Witness ==
  /\ call.op = "Update"
  /\ call.rc = SQLITE_ERROR
  /\ zErrMsg = "Failed to perform insertion due to: %s"
  /\ Cardinality(DOMAIN index_) = 1
  /\ Cardinality(rowids_) = 1

\* C4. Result size: a successful Filter with parameter k leaves a cursor
\* result of at most k entries, and of at most as many entries as distinct
\* rowids have been inserted successfully.
C4_ResultSize ==
  (call.op = "Filter" /\ call.rc = SQLITE_OK)
  => (/\ Len(cursors[call.cur].result) <= param.k
      /\ Len(cursors[call.cur].result) <= Cardinality(rowids_))

\* a Filter with k = 1 on an index of two points has left one row
C4_Witness ==
  /\ call.op = "Filter"
  /\ call.rc = SQLITE_OK
  /\ param.k = 1
  /\ Cardinality(DOMAIN index_) = 2
  /\ Len(cursors[call.cur].result) = 1

\* what Column(1) writes for the current row of a cursor that is not at its end
ColumnDistance(cur) ==
  (CHOOSE r \in ColumnResults(cur, kColumnIndexDistance) : TRUE).out.r

\* C5. Ordering: the distances Column(1) gives while the cursor is iterated
\* with Next are non-decreasing from one row to the next.
C5_Ordering ==
  [][\A c \in CursorIds :
       (/\ call'.op = "Next"
        /\ call'.cur = c
        /\ ~AtEnd(cursors[c])
        /\ ~AtEnd(cursors'[c]))
       => ColumnDistance(cursors'[c]) >= ColumnDistance(cursors[c])]_vars

\* Next has moved a cursor to a second row that is farther than the first and
\* has the smaller rowid
C5_Witness ==
  \E c \in CursorIds :
    /\ call.op = "Next"
    /\ call.cur = c
    /\ cursors[c].current_row = 2
    /\ Len(cursors[c].result) = 2
    /\ cursors[c].result[1].first < cursors[c].result[2].first
    /\ LimbLess(cursors[c].result[2].second, cursors[c].result[1].second)

\* C6. A failing Filter returns no rows: when Filter returns an error, no
\* search is run on the index and the cursor's result, position and query
\* vector are what they were before the call.
C6_FailingFilter ==
  [][(call'.op = "Filter" /\ call'.rc = SQLITE_ERROR)
     => (/\ cursors' = cursors
         /\ call'.idx = ""
         /\ index_' = index_)]_vars

\* a Filter has failed on the dimension of its query, on a cursor that an
\* earlier Filter and a Next had left on the second of two rows
C6_Witness ==
  /\ call.op = "Filter"
  /\ call.rc = SQLITE_ERROR
  /\ zErrMsg = "Dimension mismatch: query vector has dimension %d, but the table has dimension %d"
  /\ Len(cursors[call.cur].result) = 2
  /\ cursors[call.cur].current_row = 2

\* the largest value of hnswlib::labeltype
LabelMax ==
  IF build.labelBits = 64
    THEN Int64(LimbBase - 1, LimbBase - 1, LimbBase - 1, LimbBase - 1)
    ELSE Int64(0, 0, LimbBase - 1, LimbBase - 1)

\* C7. Rowid bounds: Update lets a rowid r through to the index only if
\* 0 <= r and r <= the maximum of the index's label type, so that the
\* conversion of r to a label does not change its value.
C7_RowidBounds ==
  (call.op = "Update" /\ call.idx = "addPoint")
  => (/\ ~IsNegative64(call.out.i)
      /\ ~LimbLess(LabelMax, call.out.i)
      /\ ToLabel(call.out.i) = call.out.i)

\* the call is knn_param(blob, k) with a valid vector blob and an integer k
ValidBlobIntegerK(argv) ==
  /\ Len(argv) = 2
  /\ sqlite3_value_type(Arg(argv, 0)) = "SQLITE_BLOB"
  /\ FromBlobOk(Arg(argv, 0).blob)
  /\ sqlite3_value_type(Arg(argv, 1)) = "SQLITE_INTEGER"

\* C8. knn_param(blob, k) with a valid vector blob succeeds exactly for the
\* integers k > 0 of the 64-bit range, and the k of the parameter object it
\* produces is the k supplied.
C8_KnnParamK ==
  [][\A argv \in KnnParamArgs :
       (ValidBlobIntegerK(argv) /\ KnnParamFunc(Len(argv), argv))
       => (/\ (call'.rc = SQLITE_OK) <=> Less64(Zero64, Arg(argv, 1).i)
           /\ (call'.rc = SQLITE_OK) => Small64(param'.k) = Arg(argv, 1).i)]_vars

\* C9. Update supports only INSERT: a call with argc <= 1 or with a non-NULL
\* argv[0] returns an error code, sets the vtab's error message and does not
\* reach the index.
C9_OnlyInsert ==
  [][\A argv \in UpdateArgs :
       (/\ (Len(argv) <= 1 \/ sqlite3_value_type(Arg(argv, 0)) # "SQLITE_NULL")
        /\ Update(Len(argv), argv))
       => (/\ call'.rc = SQLITE_ERROR
           /\ zErrMsg' = "Operation not supported for now"
           /\ call'.idx = ""
           /\ index_' = index_
           /\ rowids_' = rowids_)]_vars

\* an Update was refused as unsupported on an index that holds a point
C9_Witness ==
  /\ call.op = "Update"
  /\ call.rc = SQLITE_ERROR
  /\ zErrMsg = "Operation not supported for now"
  /\ index_ # <<>>

\* the constraints BestIndex recognizes, and the code of each
Recognized(constraint) ==
  \/ (constraint.op = kFunctionConstraintVectorSearchKnn
      /\ constraint.iColumn = kColumnIndexVector)
  \/ constraint.iColumn = -1
CodeOf(constraint) ==
  IF constraint.op = kFunctionConstraintVectorSearchKnn
     /\ constraint.iColumn = kColumnIndexVector
    THEN kVector ELSE kRowid
\* the positions of the usable recognized constraints of a list
UsableRecognized(aConstraint) ==
  {i \in 1..Len(aConstraint) :
     aConstraint[i].usable /\ Recognized(aConstraint[i])}
Last(S) == CHOOSE i \in S : \A j \in S : j <= i

\* C10. Planner tie-break: after BestIndex has walked a constraint list,
\* idxNum is the code of the last usable recognized constraint in list order,
\* and is what the host passed when there is none.
C10_LastConstraintWins ==
  [][call'.op = "BestIndex"
     => info'.idxNum =
          IF UsableRecognized(info.aConstraint) = {} THEN info.idxNum
          ELSE CodeOf(info.aConstraint[Last(UsableRecognized(info.aConstraint))])]_vars

\* BestIndex has seen a usable knn constraint followed by a usable rowid
\* constraint, and idxNum is that of the rowid constraint
C10_Witness ==
  /\ call.op = "BestIndex"
  /\ Len(info.aConstraint) = 2
  /\ info.aConstraint[1].usable
  /\ CodeOf(info.aConstraint[1]) = kVector
  /\ info.aConstraint[2].usable
  /\ info.aConstraint[2].iColumn = -1
  /\ info.idxNum = kRowid

\* C11. Filter can be called again on a cursor that was already filtered:
\* whenever Filter gets as far as its search, the assertion that the cursor's
\* result is empty holds, the call returns success, and the cursor's result
\* is the answer of that call's search with the position at its first row.
C11_FilterAgain ==
  [][\A c \in CursorIds :
       (/\ call'.op = "Filter"
        /\ call'.cur = c
        /\ call'.idx = "searchKnnCloserFirst")
       => (/\ cursors[c].result = <<>>
           /\ call'.rc = SQLITE_OK
           /\ cursors'[c].current_row = 1
           /\ cursors'[c].result
                \in SearchKnnCloserFirst(cursors'[c].query_vector, param.k))]_vars

\* the position of a cursor, counted from 0
Position(cur) == cur.current_row - 1

\* C12. Iteration ends: a successful Filter leaves the position at 0; each
\* Next keeps the result and moves a position p to min(p + 1, n), n the
\* number of rows, so that a Next at the end is a no-op; and Eof answers true
\* exactly when the position is n. Hence Eof is false after fewer than n
\* calls of Next, true after n, and stays true until the next successful
\* Filter.
C12_IterationEnds ==
  [][\A c \in CursorIds :
       /\ (call'.op = "Filter" /\ call'.cur = c /\ call'.rc = SQLITE_OK)
          => Position(cursors'[c]) = 0
       /\ (call'.op = "Next" /\ call'.cur = c)
          => (/\ cursors'[c].result = cursors[c].result
              /\ Position(cursors'[c])
                   = Min(Position(cursors[c]) + 1, Len(cursors[c].result))
              /\ AtEnd(cursors[c]) => cursors'[c] = cursors[c])
       /\ (call'.op = "Eof" /\ call'.cur = c)
          => ((call'.rc = "true")
                <=> (Position(cursors[c]) = Len(cursors[c].result)))]_vars

\* Eof has answered true on a cursor of two rows that Next has moved to its
\* end
C12_Witness ==
  \E c \in CursorIds :
    /\ call.op = "Eof"
    /\ call.cur = c
    /\ call.rc = "true"
    /\ Len(cursors[c].result) = 2
    /\ Position(cursors[c]) = 2

\* the position of an open cursor is within its result
PositionInBounds(cur) ==
  0 <= Position(cur) /\ Position(cur) <= Len(cur.result)

\* C13. Cursor position bounds: each open cursor's position is between 0 and
\* the length of its result; the iterator refers to the cursor's current
\* result, since the result is replaced only by a successful Filter, which
\* sets the iterator to the begin of the new result in the same call; and a
\* freshly opened cursor has an empty result and is at its end.
C13_PositionBounds ==
  /\ [](\A c \in CursorIds : cursors[c].open => PositionInBounds(cursors[c]))
  /\ [][\A c \in CursorIds :
          /\ (cursors[c].open /\ cursors'[c].open
              /\ ~(call'.op = "Filter" /\ call'.cur = c /\ call'.rc = SQLITE_OK))
             => cursors'[c].result = cursors[c].result
          /\ (call'.op = "Filter" /\ call'.cur = c /\ call'.rc = SQLITE_OK)
             => cursors'[c].current_row = 1
          /\ (call'.op = "Open" /\ call'.cur = c)
             => (cursors'[c].result = <<>> /\ AtEnd(cursors'[c]))]_vars

\* an Update has added a second point while a cursor stood at the end of a
\* result of one row
C13_Witness ==
  \E c \in CursorIds :
    /\ call.op = "Update"
    /\ call.rc = SQLITE_OK
    /\ Cardinality(DOMAIN index_) = 2
    /\ cursors[c].open
    /\ Len(cursors[c].result) = 1
    /\ Position(cursors[c]) = 1

\* C14. Rowid returns the label of the row at the cursor's position when the
\* cursor is not at its end; at the end, a cursor never filtered included,
\* Rowid and Column return an error and write no rowid and no column value.
C14_RowidAndColumnAtEof ==
  [][\A c \in CursorIds :
       /\ (call'.op = "Rowid" /\ call'.cur = c)
          => IF Position(cursors[c]) < Len(cursors[c].result)
               THEN /\ call'.rc = SQLITE_OK
                    /\ call'.out
                         = IntegerValue(cursors[c].result[Position(cursors[c]) + 1].second)
               ELSE /\ call'.rc = SQLITE_ERROR
                    /\ call'.out = NullValue
       /\ (call'.op = "Column" /\ call'.cur = c
           /\ Position(cursors[c]) = Len(cursors[c].result))
          => (/\ call'.rc = SQLITE_ERROR
              /\ call'.out = NullValue
              /\ call'.idx = "")]_vars

\* Rowid has failed on a cursor that Next had moved past its only row
C14_Witness ==
  \E c \in CursorIds :
    /\ call.op = "Rowid"
    /\ call.cur = c
    /\ call.rc = SQLITE_ERROR
    /\ Len(cursors[c].result) = 1
    /\ Position(cursors[c]) = 1

\* C15. Known-row/index consistency: after any sequence of successful and
\* failing Updates, the known-row set equals the set of labels the index
\* holds.
C15_KnownRowsAreLabels == rowids_ = DOMAIN index_

\* C16. NotFound cannot occur: every rowid in a cursor's result is a label
\* the index holds, also after Updates between Filter and Column, and no
\* call of Column has returned the "can't find vector" error.
C16_NoNotFound ==
  /\ \A c \in CursorIds :
       \A i \in 1..Len(cursors[c].result) :
         GetVectorByRowidOk(cursors[c].result[i].second)
  /\ ~(/\ call.op = "Column"
       /\ call.out = TextValue("Can't find vector with rowid %d"))

\* Column(0) has returned the vector of a row whose vector an Update has
\* replaced since the Filter: the row's distance is no longer the distance of
\* the stored vector
C16_Witness ==
  \E c \in CursorIds :
    /\ call.op = "Column"
    /\ call.cur = c
    /\ call.rc = SQLITE_OK
    /\ call.idx = "getDataByLabel"
    /\ ~AtEnd(cursors[c])
    /\ LET row == cursors[c].result[cursors[c].current_row]
       IN row.first # Distance(cursors[c].query_vector,
                               GetVectorByRowid(row.second))

\* C17. Dim invariant: every vector the index holds has the table's
\* dimension, so that the assertion in GetVectorByRowid never fails, and each
\* vector Column(0) returns is a blob of 4 * dim bytes.
C17_DimInvariant ==
  /\ \A l \in DOMAIN index_ : VecDim(index_[l]) = dimension
  /\ (call.op = "Column" /\ call.idx = "getDataByLabel")
     => (/\ call.rc = SQLITE_OK
         /\ call.out.type = "SQLITE_BLOB"
         /\ BlobSize(call.out.blob) = 4 * dimension)

\* Column(0) has returned the vector of a row that was inserted with a rowid
\* beyond 32 bits, after an insert of a vector of another dimension had failed
C17_Witness ==
  /\ call.op = "Column"
  /\ call.rc = SQLITE_OK
  /\ call.out.type = "SQLITE_BLOB"
  /\ BlobSize(call.out.blob) = 4 * Dim
  /\ rowids_ = {Pow32Plus(1)}
  /\ zErrMsg = "Dimension mismatch: vector has dimension %d, but the table has dimension %d"

\* C18. A cursor's state is changed only by calls on that same cursor: it is
\* made by Open and discarded by Close, and while it is open its result,
\* position and query vector change only in Filter and Next on it. Update,
\* Eof, Rowid, Column, BestIndex and every call on another cursor leave it as
\* it was.
C18_CursorFrame ==
  [][\A c \in CursorIds :
       cursors'[c] # cursors[c]
       => (/\ call'.cur = c
           /\ call'.op \in {"Open", "Filter", "Next", "Close"}
           /\ (cursors[c].open /\ cursors'[c].open)
              => call'.op \in {"Filter", "Next"})]_vars

\* Next has moved one cursor to the end of its one row while the other
\* cursor stands on the first of its two rows
C18_Witness ==
  /\ call.op = "Next"
  /\ call.cur = "cur1"
  /\ Len(cursors["cur1"].result) = 1
  /\ Position(cursors["cur1"]) = 1
  /\ cursors["cur2"].open
  /\ Len(cursors["cur2"].result) = 2
  /\ Position(cursors["cur2"]) = 0

\* C19. Create returns success, and hands a table to the host, only when
\* exactly two module arguments are given, both literals parse and the schema
\* declaration succeeds; in every other case it returns an error code and
\* makes no table and no index.
C19_CreateOnlyWhenValid ==
  [][\A args \in ModuleArgs, config_rc \in {SQLITE_OK, SQLITE_ERROR},
        declare_rc \in {SQLITE_OK, SQLITE_NOMEM}, ctor_throws \in BOOLEAN :
       Create(kModuleParamOffset + Len(args), args, config_rc, declare_rc,
              ctor_throws)
       => LET valid == /\ Len(args) = 2
                       /\ VectorSpaceOk(args[1])
                       /\ IndexOptionsOk(args[2])
                       /\ declare_rc = SQLITE_OK
          IN /\ (call'.rc = SQLITE_OK) => valid
             /\ (call'.rc = SQLITE_OK)
                => (call'.out = PointerValue("VirtualTable") /\ HasTable')
             /\ (~valid) => call'.rc # SQLITE_OK
             /\ (call'.rc # SQLITE_OK)
                => (/\ call'.out.ptr = ""
                    /\ ~HasTable'
                    /\ index_' = <<>>)]_vars

\* Create has failed in the constructor of the table, after two literals
\* that parse and a schema declaration that succeeded
C19_Witness ==
  /\ call.op = "Create"
  /\ call.rc = SQLITE_ERROR
  /\ call.out = TextValue("Failed to create virtual table: %s")
  /\ ~HasTable

\* C20. KNN parameter ownership: a knn_param call allocates a parameter
\* object exactly when it succeeds; the object is changed by no hook and
\* freed only by the host's deleter; a successful Filter leaves in the cursor
\* a copy of the (normalized) query vector, and the cursors are what they
\* were after the object is freed.
C20_ParamOwnership ==
  [][/\ (call'.op = "KnnParamFunc")
        => (/\ param'.live <=> (call'.rc = SQLITE_OK)
            /\ (call'.rc # SQLITE_OK) => param' = param)
     /\ (param' # param) => call'.op \in {"KnnParamFunc", "KnnParamDeleter"}
     /\ (param.live /\ ~param'.live) => call'.op = "KnnParamDeleter"
     /\ (call'.op = "KnnParamDeleter") => cursors' = cursors
     /\ (call'.op = "Filter" /\ call'.rc = SQLITE_OK)
        => cursors'[call'.cur].query_vector
             = (IF space_.normalize THEN Normalize(param.query_vector)
                                    ELSE param.query_vector)]_vars

\* the host has freed the parameter object after a Filter that found a row:
\* the cursor still holds its query vector and its row
C20_Witness ==
  \E c \in CursorIds :
    /\ call.op = "KnnParamDeleter"
    /\ ~param.live
    /\ cursors[c].open
    /\ cursors[c].query_vector # <<>>
    /\ Len(cursors[c].result) = 1

\* C21: while a table exists its zErrMsg is null exactly when there is no
\* message, the only allocated message buffer is the one zErrMsg points to
\* (so at most one is allocated and every replaced one has been freed), no
\* buffer was ever freed twice, and once the table is destroyed no message
\* buffer is left allocated.
C21_ErrMsgBuffer ==
  /\ Cardinality(heap.live) <= 1
  /\ ~heap.badFree
  /\ HasTable => /\ (zErrMsg = "") <=> (heap.ptr = 0)
                 /\ heap.live = (IF heap.ptr = 0 THEN {} ELSE {heap.ptr})
  /\ ~HasTable => heap.live = {}
\* Destroy has freed the buffer that the last failing call left
C21_Witness ==
  /\ call.op = "Destroy"
  /\ heap.ptr # 0
  /\ heap.live = {}

\* C22: when Filter is called with the plan BestIndex made for a constraint
\* list that holds a usable knn_search constraint on column 0, that plan's
\* idxNum is kVector, argv[0] is the knn parameter, and the call does not fail
\* with the invalid-index-number error.
C22_KnnPlanExecutes ==
  (/\ call.op = "Filter"
   /\ \E i \in 1..Len(info.aConstraint) :
        info.aConstraint[i].usable /\ IsKnnConstraint(info.aConstraint[i]))
  => /\ info.idxNum = kVector
     /\ sqlite3_value_pointer(Arg(PlanArgv(info), 0), kKnnParamType)
     /\ ~(call.rc = SQLITE_ERROR /\ zErrMsg = "Invalid index number: %d")

\* C23: after BestIndex has walked a constraint list, the non-zero argvIndex
\* values are pairwise distinct and are exactly 1..n, n being the number of
\* constraints BestIndex marked.
C23_ArgvIndexWellFormed ==
  call.op = "BestIndex" =>
    /\ \A i, j \in Marked(info) :
         info.argvIndex[i] = info.argvIndex[j] => i = j
    /\ {info.argvIndex[i] : i \in Marked(info)} = 1..Cardinality(Marked(info))

\* C24: whenever Column has given a value of a cursor's current row, the
\* row's distance column is the distance between the cursor's stored query
\* vector and the vector its vector column gives for that row, whatever
\* Update calls came between the cursor's Filter and the Column call.
C24_RowConsistency ==
  \A c \in CursorIds :
    (/\ call.op = "Column"
     /\ call.cur = c
     /\ call.rc = SQLITE_OK)
    => \A d \in ColumnResults(cursors[c], kColumnIndexDistance),
          v \in ColumnResults(cursors[c], kColumnIndexVector) :
         (d.rc = SQLITE_OK /\ v.rc = SQLITE_OK)
         => d.out.r = Distance(cursors[c].query_vector, FromBlob(v.out.blob))

====
